---- MODULE Spec2Model ----
(***************************************************************************)
(* Model of scripts/build_index.py: the front-matter parser, the field     *)
(* resolver (read_markdown), the document walker and main's rebuild of the *)
(* SQLite index (articles table + article_index FTS table).                *)
(*                                                                         *)
(* Text is a sequence of one-character strings.  Three characters are      *)
(* literal for the regular expression of parse_frontmatter: "-", "\n" and  *)
(* " ".  "#" and "B" are literal too (headings, plain words).  A capital   *)
(* letter other than "B" abbreviates one whole YAML line that holds no     *)
(* dash, no newline and no leading or trailing blank (see KVOf); "["       *)
(* is an unclosed flow sequence, a line PyYAML cannot parse.               *)
(***************************************************************************)
EXTENDS Integers, Sequences, FiniteSets, Bags, TLC

VARIABLES
    text,       \* parse model: the document text handed to the parser
    pfOut,      \* parse model: what parse_frontmatter(text) returned
    rmOut,      \* parse model: what read_markdown(<stem>.md) returned
    fs,         \* the document root: NoRoot, or a function path -> text
    outDir,     \* whether OUTPUT_DIR exists
    db,         \* the committed content of index.sqlite
    conn,       \* the open connection's view of the tables, or Closed
    todo,       \* paths walk_articles has still to yield
    count,      \* main's local counter
    pc,         \* where the process is: idle, loop, exited
    exitCode,   \* the process exit status, -1 while running
    raised,     \* the uncaught exception that ended main, "" if none
    printed,    \* what main printed
    prior       \* history: the content of index.sqlite when main began

parseVars == <<text, pfOut, rmOut>>
mainVars  == <<fs, outDir, db, conn, todo, count, pc, exitCode, raised, printed,
               prior>>
vars      == <<text, pfOut, rmOut, fs, outDir, db, conn, todo, count, pc,
               exitCode, raised, printed, prior>>

(***************************************************************************)
(* Bounds.                                                                 *)
(***************************************************************************)
MaxLines == 4

(***************************************************************************)
(* Characters, sequences.                                                  *)
(***************************************************************************)
NL == "\n"

Marker == <<"-", "-", "-">>

\* re: \s (of the characters of the model)
IsSpace(c) == c \in {" ", NL}

Range(s) == {s[k] : k \in 1..Len(s)}

Last(s) == s[Len(s)]

SetMax(S) == CHOOSE m \in S : \A k \in S : k <= m

SetMin(S) == CHOOSE m \in S : \A k \in S : m <= k

\* str.startswith(lit) at position p (1-based)
StartsAt(s, p, lit) ==
    /\ p >= 1
    /\ p + Len(lit) - 1 <= Len(s)
    /\ \A k \in 1..Len(lit) : s[p + k - 1] = lit[k]

\* "".join(chars)
RECURSIVE Join(_)
Join(s) == IF s = <<>> THEN "" ELSE s[1] \o Join(Tail(s))

\* str.splitlines(): the pieces between newlines; no empty piece after a final newline
RECURSIVE SplitFrom(_, _, _)
SplitFrom(s, p, cur) ==
    IF p > Len(s) THEN (IF cur = <<>> THEN <<>> ELSE <<cur>>)
    ELSE IF s[p] = NL THEN <<cur>> \o SplitFrom(s, p + 1, <<>>)
    ELSE SplitFrom(s, p + 1, Append(cur, s[p]))

SplitLines(s) == SplitFrom(s, 1, <<>>)

\* str.strip()
RECURSIVE LStrip(_)
LStrip(s) == IF s /= <<>> /\ IsSpace(s[1]) THEN LStrip(Tail(s)) ELSE s

RECURSIVE RStrip(_)
RStrip(s) ==
    IF s /= <<>> /\ IsSpace(Last(s)) THEN RStrip(SubSeq(s, 1, Len(s) - 1)) ELSE s

Strip(s) == RStrip(LStrip(s))

(***************************************************************************)
(* Python values: str, int, list, None.                                    *)
(***************************************************************************)
PyStr(s)  == [t |-> "str", s |-> s, l |-> <<>>]
PyInt(n)  == [t |-> "int", s |-> ToString(n), l |-> <<>>]
PyList(l) == [t |-> "list", s |-> "", l |-> l]
PyNone    == [t |-> "none", s |-> "", l |-> <<>>]

\* bool(v)
Truthy(v) ==
    CASE v.t = "str"  -> v.s /= ""
      [] v.t = "int"  -> v.s /= "0"
      [] v.t = "list" -> v.l /= <<>>
      [] OTHER        -> FALSE

\* str(v) of a scalar
StrOf(v) ==
    CASE v.t = "none" -> "None"
      [] OTHER        -> v.s

\* dict, as the sequence of its items in insertion order
DictHas(d, k) == \E n \in 1..Len(d) : d[n].k = k

DictGet(d, k, default) ==
    IF DictHas(d, k) THEN d[CHOOSE n \in 1..Len(d) : d[n].k = k].v ELSE default

DictSet(d, k, v) ==
    IF DictHas(d, k)
    THEN [n \in 1..Len(d) |-> IF d[n].k = k THEN [k |-> k, v |-> v] ELSE d[n]]
    ELSE Append(d, [k |-> k, v |-> v])

(***************************************************************************)
(* yaml.safe_load, on the lines the model writes.                          *)
(***************************************************************************)
\* The YAML line a capital letter stands for, as the dict item it loads to.
KVOf(c) ==
    CASE c = "T" -> [k |-> "title", v |-> PyStr("A")]                \* title: A
      [] c = "E" -> [k |-> "title", v |-> PyStr("")]                 \* title: ""
      [] c = "I" -> [k |-> "id", v |-> PyStr("x")]                   \* id: x
      [] c = "Z" -> [k |-> "id", v |-> PyInt(0)]                     \* id: 0
      [] c = "G" -> [k |-> "tags", v |-> PyList(<<PyStr("x"), PyStr("y")>>)] \* tags: [x, y]
      [] c = "N" -> [k |-> "tags", v |-> PyList(<<PyInt(1), PyInt(2)>>)]     \* tags: [1, 2]
      [] c = "S" -> [k |-> "tags", v |-> PyStr("foo")]               \* tags: foo
      [] c = "Y" -> [k |-> "tags", v |-> PyList(<<>>)]               \* tags: []
      [] c = "V" -> [k |-> "date", v |-> PyNone]                     \* date: 2024-13-45

KVTokens == {"T", "E", "I", "Z", "G", "N", "S", "Y", "V"}

\* The value of this line matches YAML's timestamp pattern and is no date:
\* the constructor's datetime.date(2024, 13, 45) raises ValueError.
BadDateTokens == {"V"}

\* What a line is to the YAML scanner.
LineKind(line) ==
    IF \A n \in 1..Len(line) : IsSpace(line[n]) THEN "blank"
    ELSE IF line[1] = "#" THEN "comment"
    ELSE IF StartsAt(line, 1, Marker) /\ \A n \in 4..Len(line) : IsSpace(line[n])
         THEN "docstart"
    ELSE IF Len(line) = 1 /\ line[1] \in KVTokens THEN "kv"
    ELSE IF line = <<"[">> THEN "bad"
    ELSE "scalar"

RECURSIVE DropLeading(_, _)
DropLeading(ks, kind) ==
    IF ks /= <<>> /\ ks[1] = kind THEN DropLeading(Tail(ks), kind) ELSE ks

RECURSIVE DropTrailing(_, _)
DropTrailing(ks, kind) ==
    IF ks /= <<>> /\ Last(ks) = kind
    THEN DropTrailing(SubSeq(ks, 1, Len(ks) - 1), kind) ELSE ks

RECURSIVE DictOfLines(_)
DictOfLines(lines) ==
    IF lines = <<>> THEN <<>>
    ELSE LET d == DictOfLines(SubSeq(lines, 1, Len(lines) - 1))
             l == Last(lines)
         IN  DictSet(d, KVOf(l[1]).k, KVOf(l[1]).v)

\* yaml.safe_load(src): exc is the exception it raises ("" for none);
\* otherwise isdict tells whether the document is a mapping, and d is that
\* mapping.  The whole document is scanned and parsed (YAMLError) before
\* any value is constructed (ValueError).
\*   - blank lines are skipped; comments are skipped except inside a plain
\*     multi-line scalar, which a comment ends;
\*   - one leading "---" opens the document, any later one starts a second
\*     document (ComposerError);
\*   - only "key: value" lines: a block mapping, a repeated key keeps the
\*     last value;
\*   - a plain word followed by words or "[": one multi-line plain scalar;
\*   - anything else (an unclosed "[", a word after or before a mapping
\*     line): ScannerError / ParserError.
\*   - a mapping with a value that looks like a date and is none:
\*     ValueError, which is not a yaml.YAMLError.
YamlOfBody(kvLines, body) ==
    IF "docstart" \in Range(body)
        THEN [exc |-> "YAMLError", isdict |-> FALSE, d |-> <<>>]
    ELSE IF body = <<>>
        THEN [exc |-> "", isdict |-> FALSE, d |-> <<>>]
    ELSE IF Range(body) \subseteq {"kv", "comment"}
        THEN IF \E n \in 1..Len(kvLines) : kvLines[n][1] \in BadDateTokens
             THEN [exc |-> "ValueError", isdict |-> FALSE, d |-> <<>>]
             ELSE [exc |-> "", isdict |-> TRUE, d |-> DictOfLines(kvLines)]
    ELSE IF body[1] = "scalar" /\ Range(body) \subseteq {"scalar", "bad"}
        THEN [exc |-> "", isdict |-> FALSE, d |-> <<>>]
    ELSE [exc |-> "YAMLError", isdict |-> FALSE, d |-> <<>>]

\* The document's lines after the comments and the one "---" that may open it.
DropDocStart(ks) == IF ks /= <<>> /\ ks[1] = "docstart" THEN Tail(ks) ELSE ks

BodyKinds(kinds) ==
    DropTrailing(DropLeading(DropDocStart(DropLeading(kinds, "comment")), "comment"),
                 "comment")

YamlOfLines(lines) ==
    YamlOfBody(SelectSeq(lines, LAMBDA l : LineKind(l) = "kv"),
               BodyKinds([n \in 1..Len(lines) |-> LineKind(lines[n])]))

YamlLoad(src) ==
    YamlOfLines(SelectSeq(SplitLines(src), LAMBDA l : LineKind(l) /= "blank"))

(***************************************************************************)
(* parse_frontmatter: re.compile(r"^---\s*\n(.*?)\n---\s*\n", re.DOTALL)   *)
(***************************************************************************)
\* The first position at or after p that holds no whitespace.
RECURSIVE WsRunEnd(_, _)
WsRunEnd(s, p) ==
    IF p <= Len(s) /\ IsSpace(s[p]) THEN WsRunEnd(s, p + 1) ELSE p

\* \s*\n from position p: the positions right after a newline it can end at.
WsNlEnds(s, p) == {q + 1 : q \in {r \in p..(WsRunEnd(s, p) - 1) : s[r] = NL}}

\* ^---\s*\n : where group 1 can start.
OpenEnds(s) == IF StartsAt(s, 1, Marker) THEN WsNlEnds(s, 4) ELSE {}

\* \n---\s*\n matches from position j.
CloseAt(s, j) == StartsAt(s, j, <<NL>> \o Marker) /\ WsNlEnds(s, j + 4) /= {}

\* The match pattern.match(text) returns, as Python's backtracking finds it:
\* the opening \s* greedy, (.*?) lazy, the closing \s* greedy.
\* [found, g1 (group 1), end (1-based position of text[match.end():])]
MatchSpan(s, i, j) ==
    [found |-> TRUE, g1 |-> SubSeq(s, i, j - 1), end |-> SetMax(WsNlEnds(s, j + 4))]

MatchFrom(s, starts) ==
    IF starts = {} THEN [found |-> FALSE, g1 |-> <<>>, end |-> 1]
    ELSE MatchSpan(s, SetMax(starts),
                   SetMin({q \in SetMax(starts)..Len(s) : CloseAt(s, q)}))

FrontmatterMatch(s) ==
    MatchFrom(s, {i \in OpenEnds(s) : \E j \in i..Len(s) : CloseAt(s, j)})

\* parse_frontmatter(text) -> (meta, content); raised names the exception
\* that leaves the function instead ("" when it returns): only
\* yaml.YAMLError is caught.
ParseLoaded(s, m, y) ==
    IF y.exc = ""
    THEN [raised  |-> "",
          meta    |-> IF y.isdict THEN y.d ELSE <<>>,
          content |-> SubSeq(s, m.end, Len(s))]
    ELSE IF y.exc = "YAMLError"
    THEN [raised |-> "", meta |-> <<>>, content |-> s]
    ELSE [raised |-> y.exc, meta |-> <<>>, content |-> <<>>]

ParseMatched(s, m) ==
    IF m.found THEN ParseLoaded(s, m, YamlLoad(m.g1))
    ELSE [raised |-> "", meta |-> <<>>, content |-> s]

parse_frontmatter(s) == ParseMatched(s, FrontmatterMatch(s))

(***************************************************************************)
(* read_markdown                                                           *)
(***************************************************************************)
\* The lines of the body that start with "# ".
HeadingLines(content) ==
    SelectSeq(SplitLines(content), LAMBDA l : StartsAt(l, 1, <<"#", " ">>))

\* TitleFrom with a fault: the body's heading is looked for first.
TitleFromHeadingFirst(title, hs, stem) ==
    IF hs /= <<>> THEN PyStr(Join(Strip(SubSeq(hs[1], 3, Len(hs[1])))))
    ELSE IF Truthy(title) THEN title
    ELSE PyStr(stem)

\* title = meta.get("title"); if not title: stem, or the first "# " line
TitleFrom(title, hs, stem) ==
    IF Truthy(title) THEN title
    ELSE IF hs /= <<>> THEN PyStr(Join(Strip(SubSeq(hs[1], 3, Len(hs[1])))))
    ELSE PyStr(stem)

ResolveTitle(meta, content, stem) ==
    TitleFrom(DictGet(meta, "title", PyNone), HeadingLines(content), stem)

\* read_markdown(md_path), of the file's stem and text; raised as for
\* parse_frontmatter, whose exception it lets through.
ReadParsed(stem, p) ==
    [raised  |-> p.raised,
     id      |-> DictGet(p.meta, "id", PyNone),
     title   |-> IF p.raised = "" THEN ResolveTitle(p.meta, p.content, stem)
                 ELSE PyNone,
     author  |-> DictGet(p.meta, "author", PyStr("")),
     summary |-> DictGet(p.meta, "summary", PyStr("")),
     tags    |-> DictGet(p.meta, "tags", PyList(<<>>)),
     content |-> p.content,
     meta    |-> p.meta]

read_markdown(stem, s) == ReadParsed(stem, parse_frontmatter(s))

(***************************************************************************)
(* The parse model: a text is written line by line, then handed to         *)
(* parse_frontmatter and to read_markdown.                                 *)
(***************************************************************************)
\* The lines a text is written from: the marker, the marker followed by a
\* blank, an empty line, title: A, title: "", the heading "# B", the word
\* B, an unclosed "[", and date: 2024-13-45.
LineChoices ==
    { Marker, Marker \o <<" ">>, <<>>, <<"T">>, <<"E">>, <<"#", " ", "B">>,
      <<"B">>, <<"[">>, <<"V">> }

\* The stem of the file the text is read from (notes.md).
Stem == "notes"

NoParse == [called |-> FALSE, raised |-> "", meta |-> <<>>, content |-> <<>>]

NoRead == [called |-> FALSE, raised |-> "", title |-> PyNone, meta |-> <<>>,
           content |-> <<>>]

\* The number of lines of a text, an unterminated last line included.
NumLines(s) == Len(SplitLines(s))

ParseInit ==
    /\ text = <<>>
    /\ pfOut = NoParse
    /\ rmOut = NoRead

\* One more line is written to the file, with or without its newline; a
\* line without newline ends the file.
WriteLine(l, nl) ==
    /\ ~pfOut.called
    /\ IF text = <<>> THEN TRUE ELSE Last(text) = NL
    /\ NumLines(text) < MaxLines
    /\ IF l = <<>> THEN nl ELSE TRUE
    /\ text' = text \o l \o (IF nl THEN <<NL>> ELSE <<>>)
    /\ UNCHANGED <<pfOut, rmOut>>

\* meta, content = parse_frontmatter(text)
CallParseFrontmatter ==
    /\ ~pfOut.called
    /\ pfOut' = [called |-> TRUE] @@ parse_frontmatter(text)
    /\ UNCHANGED <<text, rmOut>>

\* data = read_markdown(Path("notes.md"))
ReadResult(r) ==
    [called |-> TRUE, raised |-> r.raised, title |-> r.title, meta |-> r.meta,
     content |-> r.content]

CallReadMarkdown ==
    /\ pfOut.called
    /\ ~rmOut.called
    /\ rmOut' = ReadResult(read_markdown(Stem, text))
    /\ UNCHANGED <<text, pfOut>>

(***************************************************************************)
(* json.dumps, str.join                                                    *)
(***************************************************************************)
RECURSIVE JoinWith(_, _)
JoinWith(sep, strs) ==
    IF strs = <<>> THEN ""
    ELSE IF Len(strs) = 1 THEN strs[1]
    ELSE strs[1] \o sep \o JoinWith(sep, Tail(strs))

\* json.dumps(v) of a scalar
JsonScalar(v) ==
    CASE v.t = "str"  -> "\"" \o v.s \o "\""
      [] v.t = "none" -> "null"
      [] OTHER        -> v.s

\* json.dumps(v)
JsonDumps(v) ==
    IF v.t = "list"
    THEN "[" \o JoinWith(", ", [n \in 1..Len(v.l) |-> JsonScalar(v.l[n])]) \o "]"
    ELSE JsonScalar(v)

\* json.dumps(meta) of a dict
JsonDumpsDict(d) ==
    "{" \o JoinWith(", ", [n \in 1..Len(d) |->
                              "\"" \o d[n].k \o "\": " \o JsonDumps(d[n].v)]) \o "}"

(***************************************************************************)
(* Paths and the document walker                                           *)
(***************************************************************************)
\* A file under the root: its directory relative to the root ("" for the
\* root itself), its stem and its extension.
FA        == [dir |-> "",  stem |-> "a",     ext |-> "md"]    \* a.md
FB        == [dir |-> "d", stem |-> "b",     ext |-> "md"]    \* d/b.md
FIndex    == [dir |-> "",  stem |-> "index", ext |-> "md"]    \* index.md
FIndexUp  == [dir |-> "d", stem |-> "INDEX", ext |-> "MD"]    \* d/INDEX.MD
FTxt      == [dir |-> "",  stem |-> "c",     ext |-> "txt"]   \* c.txt

\* str.lower(), of the name parts above
Lower(str) ==
    CASE str = "INDEX" -> "index"
      [] str = "MD"    -> "md"
      [] OTHER         -> str

\* md.name
Name(p) == p.stem \o "." \o p.ext

\* md.relative_to(compendium_dir).as_posix()
PosixPath(p) == IF p.dir = "" THEN Name(p) ELSE p.dir \o "/" \o Name(p)

\* rglob("*.md") matches the name; ci: the platform matches names without
\* regard to case (Windows), or with (POSIX).
GlobMatches(p, ci) == IF ci THEN Lower(p.ext) = "md" ELSE p.ext = "md"

\* walk_articles with a fault: the name is compared as it is spelled.
walk_articles_exact(files, ci) ==
    {p \in DOMAIN files : GlobMatches(p, ci) /\ p.stem \o "." \o p.ext /= "index.md"}

\* walk_articles(compendium_dir): the paths it yields
walk_articles(files, ci) ==
    {p \in DOMAIN files :
        GlobMatches(p, ci) /\ Lower(p.stem) \o "." \o Lower(p.ext) /= "index.md"}

(***************************************************************************)
(* The index store                                                         *)
(***************************************************************************)
\* index.sqlite before any run: no table.
NoDb == [exists |-> FALSE, articles |-> {}, article_index |-> EmptyBag]

\* init_db with a fault: CREATE TABLE IF NOT EXISTS, and no DROP.
init_db_keep(store) == [store EXCEPT !.exists = TRUE]

\* init_db: both tables dropped if they exist, and created empty.  The
\* statements are DDL: sqlite3 runs them outside a transaction, so they are
\* committed as they run.
init_db(store) == [exists |-> TRUE, articles |-> {}, article_index |-> EmptyBag]

Closed == [open |-> FALSE, articles |-> {}, article_index |-> EmptyBag]

\* ArticleId with a fault: the path, whatever the front matter says.
ArticleIdPathOnly(data, rel_path) == rel_path

\* The row main inserts INTO articles for a file, and the one INTO
\* article_index.  tagsErr: " ".join(data["tags"]) raises TypeError.
ArticleId(data, rel_path) ==
    IF Truthy(data.id) THEN StrOf(data.id) ELSE rel_path

TagsJson(tags) == IF Truthy(tags) THEN JsonDumps(tags) ELSE "[]"

TagsJoinRaises(tags) ==
    tags.t = "list" /\ \E n \in 1..Len(tags.l) : tags.l[n].t /= "str"

TagsStr(tags) ==
    IF tags.t = "list"
    THEN JoinWith(" ", [n \in 1..Len(tags.l) |-> tags.l[n].s])
    ELSE StrOf(tags)

ArticleRow(data, rel_path) ==
    [id        |-> ArticleId(data, rel_path),
     title     |-> StrOf(data.title),
     path      |-> rel_path,
     author    |-> StrOf(data.author),
     summary   |-> StrOf(data.summary),
     tags      |-> TagsJson(data.tags),
     meta_json |-> JsonDumpsDict(data.meta)]

IndexRow(data, rel_path) ==
    [content |-> Join(data.content),
     title   |-> StrOf(data.title),
     summary |-> StrOf(data.summary),
     tags    |-> TagsStr(data.tags),
     id      |-> ArticleId(data, rel_path)]

\* InsertArticleRaises with a fault: a table without key.
InsertArticleNeverRaises(articles, row) == FALSE

\* INSERT INTO articles: id is the PRIMARY KEY, a second row with an id
\* of the table raises sqlite3.IntegrityError.
InsertArticleRaises(articles, row) == \E r \in articles : r.id = row.id

InsertArticle(articles, row) == articles \cup {row}

\* INSERT INTO article_index: the FTS table has no key.
InsertIndex(article_index, row) == article_index (+) SetToBag({row})

(***************************************************************************)
(* The documents of the main model                                         *)
(***************************************************************************)
RECURSIVE Doc(_)
Doc(lines) == IF lines = <<>> THEN <<>> ELSE lines[1] \o <<NL>> \o Doc(Tail(lines))

Heading == <<"#", " ", "B">>

\* "# B\nB\n": no front matter
X0 == Doc(<<Heading, <<"B">>>>)
\* id: x, title: A, tags: [x, y]
X1 == Doc(<<Marker, <<"I">>, <<"T">>, <<"G">>, Marker, <<"B">>>>)
\* id: x again, tags: [], and a heading in the body
X2 == Doc(<<Marker, <<"I">>, <<"Y">>, Marker, Heading>>)
\* tags: [1, 2]
X3 == Doc(<<Marker, <<"N">>, Marker, <<"B">>>>)
\* id: 0, tags: foo
X4 == Doc(<<Marker, <<"Z">>, <<"S">>, Marker, <<"B">>>>)
\* date: 2024-13-45
X5 == Doc(<<Marker, <<"V">>, Marker, <<"B">>>>)

ArticleTexts == {X0, X1, X2, X3, X4, X5}

\* The files the root can hold: a.md and d/b.md with any of the texts, and
\* index.md, d/INDEX.MD and c.txt.
ArticlePaths == {FA, FB}

OtherPaths == {FIndex, FIndexUp, FTxt}

NoRoot == [exists |-> FALSE, files |-> <<>>]

(***************************************************************************)
(* main                                                                    *)
(***************************************************************************)
NoMsg == [kind |-> "", n |-> 0]

\* print(f"Compendium dir not found: {compendium_dir}")
NotFoundMsg == [kind |-> "Compendium dir not found", n |-> 0]

\* print(f"Built index with {count} articles at {DB_PATH}")
BuiltMsg(n) == [kind |-> "Built index", n |-> n]

MainInit ==
    /\ fs = NoRoot
    /\ outDir = FALSE
    /\ db = NoDb
    /\ conn = Closed
    /\ todo = {}
    /\ count = 0
    /\ pc = "idle"
    /\ exitCode = -1
    /\ raised = ""
    /\ printed = NoMsg
    /\ prior = NoDb

\* Between two runs the documents change: a file is written or removed,
\* the root is removed with all it holds, or made anew.
WriteFile(p, t) ==
    /\ pc = "idle"
    /\ fs.exists
    /\ fs' = [fs EXCEPT !.files = [q \in DOMAIN fs.files \cup {p} |->
                                     IF q = p THEN t ELSE fs.files[q]]]
    /\ UNCHANGED <<outDir, db, conn, todo, count, pc, exitCode, raised, printed, prior>>

RemoveFile(p) ==
    /\ pc = "idle"
    /\ fs.exists
    /\ p \in DOMAIN fs.files
    /\ fs' = [fs EXCEPT !.files = [q \in DOMAIN fs.files \ {p} |-> fs.files[q]]]
    /\ UNCHANGED <<outDir, db, conn, todo, count, pc, exitCode, raised, printed, prior>>

RemoveRoot ==
    /\ pc = "idle"
    /\ fs.exists
    /\ fs' = NoRoot
    /\ UNCHANGED <<outDir, db, conn, todo, count, pc, exitCode, raised, printed, prior>>

MakeRoot ==
    /\ pc = "idle"
    /\ ~fs.exists
    /\ fs' = [exists |-> TRUE, files |-> <<>>]
    /\ UNCHANGED <<outDir, db, conn, todo, count, pc, exitCode, raised, printed, prior>>

\* MainStart with a fault: the store is opened and reset before the root is
\* looked for.
MainStartResetFirst ==
    /\ pc = "idle"
    /\ outDir' = TRUE
    /\ prior' = db
    /\ db' = init_db(db)
    /\ IF ~fs.exists
       THEN /\ printed' = NotFoundMsg
            /\ exitCode' = 1
            /\ pc' = "exited"
            /\ UNCHANGED <<conn, todo, count>>
       ELSE /\ conn' = [open |-> TRUE, articles |-> init_db(db).articles,
                        article_index |-> init_db(db).article_index]
            /\ count' = 0
            /\ \E ci \in BOOLEAN : todo' = walk_articles(fs.files, ci)
            /\ pc' = "loop"
            /\ UNCHANGED <<printed, exitCode>>
    /\ UNCHANGED <<fs, raised>>

\* main, to the start of its loop: ensure_dirs, the check of the root,
\* sqlite3.connect, init_db, count = 0, and the walk begun.
MainStart ==
    /\ pc = "idle"
    /\ outDir' = TRUE
    /\ prior' = db
    /\ IF ~fs.exists
       THEN /\ printed' = NotFoundMsg
            /\ exitCode' = 1
            /\ pc' = "exited"
            /\ UNCHANGED <<db, conn, todo, count>>
       ELSE /\ db' = init_db(db)
            /\ conn' = [open |-> TRUE, articles |-> init_db(db).articles,
                        article_index |-> init_db(db).article_index]
            /\ count' = 0
            /\ \E ci \in BOOLEAN : todo' = walk_articles(fs.files, ci)
            /\ pc' = "loop"
            /\ UNCHANGED <<printed, exitCode>>
    /\ UNCHANGED <<fs, raised>>

\* NextCount with a fault: count = 1
NextCountOne(c) == 1

\* count += 1
NextCount(c) == c + 1

\* What ends the pass for a file, "" for nothing: an exception of
\* read_markdown, of the INSERT INTO articles, or of " ".join.
StepException(data, arow) ==
    IF data.raised /= "" THEN data.raised
    ELSE IF InsertArticleRaises(conn.articles, arow) THEN "IntegrityError"
    ELSE IF TagsJoinRaises(data.tags) THEN "TypeError"
    ELSE ""

\* One pass of main's loop for the file md.  An exception leaves main
\* through the finally clause: conn.close() without commit drops the rows
\* inserted so far, and the interpreter exits with status 1.
StepOutcome(md, arow, irow, exc) ==
    /\ IF exc = ""
       THEN /\ conn' = [conn EXCEPT
                          !.articles = InsertArticle(@, arow),
                          !.article_index = InsertIndex(@, irow)]
            /\ count' = NextCount(count)
            /\ todo' = todo \ {md}
            /\ UNCHANGED <<pc, exitCode, raised>>
       ELSE /\ conn' = Closed
            /\ raised' = exc
            /\ exitCode' = 1
            /\ pc' = "exited"
            /\ UNCHANGED <<count, todo>>
    /\ UNCHANGED <<fs, outDir, db, printed, prior>>

StepRows(md, data, arow, irow) ==
    StepOutcome(md, arow, irow, StepException(data, arow))

StepData(md, data, rel_path) ==
    StepRows(md, data, ArticleRow(data, rel_path), IndexRow(data, rel_path))

Step(md) ==
    /\ pc = "loop"
    /\ md \in todo
    /\ StepData(md, read_markdown(md.stem, fs.files[md]), PosixPath(md))

\* The walk is exhausted: conn.commit(), the message, conn.close(), return 0.
Finish ==
    /\ pc = "loop"
    /\ todo = {}
    /\ db' = [exists |-> TRUE, articles |-> conn.articles,
              article_index |-> conn.article_index]
    /\ printed' = BuiltMsg(count)
    /\ conn' = Closed
    /\ exitCode' = 0
    /\ pc' = "exited"
    /\ UNCHANGED <<fs, outDir, todo, count, raised, prior>>

\* The script is started again.
Restart ==
    /\ pc = "exited"
    /\ pc' = "idle"
    /\ exitCode' = -1
    /\ raised' = ""
    /\ printed' = NoMsg
    /\ count' = 0
    /\ todo' = {}
    /\ prior' = NoDb
    /\ UNCHANGED <<fs, outDir, db, conn>>

(***************************************************************************)
(* Specifications                                                          *)
(***************************************************************************)
Init == ParseInit /\ MainInit

Next ==
    \/ \E p \in ArticlePaths, t \in ArticleTexts : WriteFile(p, t) /\ UNCHANGED parseVars
    \/ \E p \in OtherPaths : WriteFile(p, X0) /\ UNCHANGED parseVars
    \/ \E p \in ArticlePaths \cup OtherPaths : RemoveFile(p) /\ UNCHANGED parseVars
    \/ RemoveRoot /\ UNCHANGED parseVars
    \/ MakeRoot /\ UNCHANGED parseVars
    \/ MainStart /\ UNCHANGED parseVars
    \/ \E md \in todo : Step(md) /\ UNCHANGED parseVars
    \/ Finish /\ UNCHANGED parseVars
    \/ Restart /\ UNCHANGED parseVars

Spec == Init /\ [][Next]_vars

ParseNext ==
    \/ \E l \in LineChoices, nl \in BOOLEAN : WriteLine(l, nl) /\ UNCHANGED mainVars
    \/ CallParseFrontmatter /\ UNCHANGED mainVars
    \/ CallReadMarkdown /\ UNCHANGED mainVars

ParseSpec == Init /\ [][ParseNext]_vars

(***************************************************************************)
(* Properties of the parser and of the title (checked under ParseSpec)     *)
(***************************************************************************)
\* The number of characters of the first c lines, their newlines included.
RECURSIVE CharsOfLines(_, _)
CharsOfLines(L, c) == IF c = 0 THEN 0 ELSE Len(L[c]) + 1 + CharsOfLines(L, c - 1)

\* Line 1 is the marker "---", line c is the next marker "---", and the
\* lines between them are "key: value" lines with well-formed values.
WellFormedBlock(L, c) ==
    /\ c \in 2..Len(L)
    /\ L[1] = Marker
    /\ L[c] = Marker
    /\ \A n \in 2..(c - 1) : LineKind(L[n]) = "kv" /\ L[n][1] \notin BadDateTokens

\* C4: a text that begins with the marker line, a well-formed key/value
\* block (possibly empty) and the closing marker line (followed or not by a
\* newline or a body) parses to the block's mapping and to the body that
\* follows the closing marker line.
C4_BlockParsedAndStripped ==
    pfOut.called =>
        \A c \in 2..NumLines(text) :
            WellFormedBlock(SplitLines(text), c) =>
                /\ pfOut.raised = ""
                /\ pfOut.meta = DictOfLines(SubSeq(SplitLines(text), 2, c - 1))
                /\ pfOut.content =
                       SubSeq(text, CharsOfLines(SplitLines(text), c) + 1, Len(text))

\* The text has no leading marker line.
NoLeadingMarker(s) ==
    IF SplitLines(s) = <<>> THEN TRUE ELSE LineKind(SplitLines(s)[1]) /= "docstart"

\* The text begins with a marker line, holds a second one, and the lines
\* between the two are no YAML document that can be loaded.
BlockFailsToParse(L) ==
    \E c \in 2..Len(L) :
        /\ LineKind(L[1]) = "docstart"
        /\ LineKind(L[c]) = "docstart"
        /\ \A n \in 2..(c - 1) : LineKind(L[n]) /= "docstart"
        /\ YamlLoad(Doc(SubSeq(L, 2, c - 1))).exc /= ""

\* C5: without a leading marker line, or with an enclosed block that fails
\* to parse, parse_frontmatter returns no metadata and the text unchanged.
C5_FailureReturnsTextUnchanged ==
    (pfOut.called /\ (NoLeadingMarker(text) \/ BlockFailsToParse(SplitLines(text)))) =>
        /\ pfOut.raised = ""
        /\ pfOut.meta = <<>>
        /\ pfOut.content = text

\* The text of the first line of the body that is a level-1 heading.
FirstHeadingText(content) ==
    LET L == SplitLines(content)
        n == SetMin({k \in 1..Len(L) : StartsAt(L[k], 1, <<"#", " ">>)})
    IN  Join(Strip(SubSeq(L[n], 3, Len(L[n]))))

HasHeading(content) ==
    \E k \in 1..Len(SplitLines(content)) :
        StartsAt(SplitLines(content)[k], 1, <<"#", " ">>)

\* C6 as stated: the title is the title field whenever the metadata has one,
\* else the first level-1 heading of the body, else the stem.
C6_TitleFallbackOrder ==
    (rmOut.called /\ rmOut.raised = "") =>
        rmOut.title =
            IF DictHas(rmOut.meta, "title") THEN DictGet(rmOut.meta, "title", PyNone)
            ELSE IF HasHeading(rmOut.content) THEN PyStr(FirstHeadingText(rmOut.content))
            ELSE PyStr(Stem)

\* C6 amended: the title is the title field when the metadata has one that
\* is not empty; else (no title field, or an empty one) the first level-1
\* heading of the body; else the stem.
C6_TitleFallbackOrderNonEmpty ==
    (rmOut.called /\ rmOut.raised = "") =>
        rmOut.title =
            IF DictHas(rmOut.meta, "title") /\ Truthy(DictGet(rmOut.meta, "title", PyNone))
                THEN DictGet(rmOut.meta, "title", PyNone)
            ELSE IF HasHeading(rmOut.content) THEN PyStr(FirstHeadingText(rmOut.content))
            ELSE PyStr(Stem)

\* C6 witness: a title field in the metadata and a heading in the body,
\* and the title read is the field's.
C6_Witness ==
    /\ rmOut.called
    /\ DictHas(rmOut.meta, "title")
    /\ HasHeading(rmOut.content)
    /\ rmOut.title = PyStr("A")

(***************************************************************************)
(* Properties of main (checked under Spec)                                 *)
(***************************************************************************)
AllPaths == ArticlePaths \cup OtherPaths

\* The files named index.md, in any case.
IsIndexName(p) == Lower(p.stem) \o "." \o Lower(p.ext) = "index.md"

\* The files under the root with the extension .md that are not named
\* index.md: what a run has to index.
Articles(files) == {p \in DOMAIN files : p.ext = "md" /\ ~IsIndexName(p)}

\* The tables to look at, and when they belong to the tree of fs: during a
\* run the connection's, after a run that returned 0 the committed ones.
InRun == pc = "loop" \/ (pc = "exited" /\ exitCode = 0)

Tables == IF pc = "loop" THEN conn ELSE db

\* The front matter and the body of a file of the tree.
MetaOf(p) == parse_frontmatter(fs.files[p]).meta

BodyOf(p) == Join(parse_frontmatter(fs.files[p]).content)

\* The id of a file: its front matter's id if it has one that is not empty
\* or zero, else its path.
IdOf(p) ==
    IF DictHas(MetaOf(p), "id") /\ Truthy(DictGet(MetaOf(p), "id", PyNone))
    THEN StrOf(DictGet(MetaOf(p), "id", PyNone))
    ELSE PosixPath(p)

\* Two files of the tree that a run indexes have the same id.
Collision(files) ==
    \E p1 \in Articles(files), p2 \in Articles(files) : p1 /= p2 /\ IdOf(p1) = IdOf(p2)

\* No id twice in a table.
IdsUnique(t) ==
    /\ \A r1 \in t.articles, r2 \in t.articles : r1.id = r2.id => r1 = r2
    /\ \A i1 \in BagToSet(t.article_index), i2 \in BagToSet(t.article_index) :
           i1.id = i2.id => (i1 = i2 /\ CopiesIn(i1, t.article_index) = 1)

\* The run ended on a collision and on nothing else.
EndedOnCollision ==
    /\ pc = "exited"
    /\ fs.exists
    /\ Collision(fs.files)
    /\ raised \notin {"TypeError", "ValueError"}

\* C1 as stated: the later of two files with one id is inserted, the
\* articles table keeps one row of that id, the index has two, and the run
\* returns 0.
C1_LastWriteWins ==
    EndedOnCollision =>
        /\ exitCode = 0
        /\ \A p \in Articles(fs.files) :
               (\E q \in Articles(fs.files) \ {p} : IdOf(q) = IdOf(p)) =>
                   /\ Cardinality({r \in db.articles : r.id = IdOf(p)}) = 1
                   /\ BagCardinality(
                          [i \in {j \in BagToSet(db.article_index) : j.id = IdOf(p)}
                              |-> CopiesIn(i, db.article_index)]) = 2

\* C1 amended: the INSERT INTO articles of the later file is rejected
\* (IntegrityError): no table ever holds an id twice, the run ends with
\* status 1 and without the message, the connection is closed, and the
\* store is left with both tables empty.
C1_DuplicateIdRejected ==
    /\ IdsUnique(conn)
    /\ IdsUnique(db)
    /\ EndedOnCollision =>
           /\ raised = "IntegrityError"
           /\ exitCode = 1
           /\ printed = NoMsg
           /\ ~conn.open
           /\ db = [exists |-> TRUE, articles |-> {}, article_index |-> EmptyBag]

\* C1 witness: a run over two files with one id has ended, and the store the
\* run found held rows.
C1_Witness ==
    /\ EndedOnCollision
    /\ raised = "IntegrityError"
    /\ prior.articles /= {}

\* C2: when the root does not exist main returns 1 with the diagnostic,
\* and the store is as it was when main began; no connection is open.
C2_MissingRootLeavesStore ==
    (pc = "exited" /\ ~fs.exists) =>
        /\ exitCode = 1
        /\ printed = NotFoundMsg
        /\ raised = ""
        /\ ~conn.open
        /\ db = prior

\* C2 witness: a run without root has ended, and the store holds the rows
\* of an earlier run.
C2_Witness ==
    /\ pc = "exited"
    /\ ~fs.exists
    /\ exitCode = 1
    /\ db.articles /= {}

\* C3: after a run that returned 0 the articles table holds the rows of the
\* files of the tree and no other, whatever the store held before.
C3_RebuildDependsOnTreeOnly ==
    (pc = "exited" /\ exitCode = 0) =>
        db.articles =
            {ArticleRow(read_markdown(p.stem, fs.files[p]), PosixPath(p)) :
                p \in Articles(fs.files)}

\* C3 witness: a run returned 0 over a store that held other rows.
C3_Witness ==
    /\ pc = "exited"
    /\ exitCode = 0
    /\ db.articles /= {}
    /\ prior.articles /= {}
    /\ prior.articles /= db.articles

C8_IndexFilesExcluded ==
    /\ \A t \in {conn, db} :
           /\ \A r \in t.articles :
                  r.path \notin {PosixPath(p) : p \in {q \in AllPaths : IsIndexName(q)}}
           /\ \A i \in BagToSet(t.article_index) :
                  i.id \notin {PosixPath(p) : p \in {q \in AllPaths : IsIndexName(q)}}
    /\ pc = "loop" =>
           /\ {PosixPath(p) : p \in todo} \cup {r.path : r \in conn.articles}
                  = {PosixPath(p) : p \in Articles(fs.files)}
           /\ {PosixPath(p) : p \in todo} \cap {r.path : r \in conn.articles} = {}
    /\ (pc = "exited" /\ exitCode = 0) =>
           /\ {r.path : r \in db.articles} = {PosixPath(p) : p \in Articles(fs.files)}
           /\ Cardinality(db.articles) = Cardinality(Articles(fs.files))
           /\ BagCardinality(db.article_index) = Cardinality(Articles(fs.files))

\* C8 witness: a run returned 0 over a tree with index.md, d/INDEX.MD and
\* two other .md files.
C8_Witness ==
    /\ pc = "exited"
    /\ exitCode = 0
    /\ {FIndex, FIndexUp, FA, FB} \subseteq DOMAIN fs.files
    /\ Cardinality(db.articles) = 2

\* The tags of a file as a sequence of strings.
TagStrings(v) ==
    IF v.t = "list" THEN [n \in 1..Len(v.l) |-> PyStr(StrOf(v.l[n]))]
    ELSE <<PyStr(StrOf(v))>>

\* C9: whatever the tags value, the tags column of the articles row is the
\* serialized sequence of strings, the tags column of the index row is the
\* elements joined by a blank (the string of a value that is no sequence),
\* and no insert fails on the tags.
C9_TagsNormalized ==
    /\ raised /= "TypeError"
    /\ InRun =>
           \A r \in Tables.articles :
               \E p \in DOMAIN fs.files :
                   /\ r.path = PosixPath(p)
                   /\ r.tags = JsonDumps(PyList(TagStrings(
                                   DictGet(MetaOf(p), "tags", PyList(<<>>)))))
                   /\ \E i \in BagToSet(Tables.article_index) :
                          /\ i.id = r.id
                          /\ i.tags = JoinWith(" ",
                                 [n \in 1..Len(TagStrings(DictGet(MetaOf(p), "tags", PyList(<<>>))))
                                     |-> TagStrings(DictGet(MetaOf(p), "tags", PyList(<<>>)))[n].s])

\* C10: over a tree without two files of one id, between two passes of the
\* loop both tables hold count rows and the same ids, each once; after a run
\* that returned 0 the count in the message is the number of files walked.
C10_TablesGrowTogether ==
    (fs.exists /\ ~Collision(fs.files)) =>
        /\ InRun =>
               /\ Cardinality(Tables.articles) = count
               /\ BagCardinality(Tables.article_index) = count
               /\ {r.id : r \in Tables.articles}
                      = {i.id : i \in BagToSet(Tables.article_index)}
               /\ IdsUnique(Tables)
        /\ (pc = "exited" /\ exitCode = 0) =>
               /\ printed = BuiltMsg(Cardinality(Articles(fs.files)))
               /\ count = Cardinality(Articles(fs.files))

\* C10 witness: the loop is between its first and its second file.
C10_Witness ==
    /\ pc = "loop"
    /\ ~Collision(fs.files)
    /\ count = 1
    /\ todo /= {}
    /\ Cardinality(conn.articles) = 1

====
